---- MODULE Spec2Model ----
(***************************************************************************)
(* The order ledger of chariot-backend: the tables "order",                *)
(* order_line_item, "transaction" and "authorization", the payment intents *)
(* and refunds held by the payment gateway, and the HTTP handlers of       *)
(* server.js that read and write them.  One action per handler: a handler  *)
(* writes the database with a single SQL statement, so it is one atomic    *)
(* step (create-intent, which never writes the ledger, is taken as one     *)
(* step).  The pricing engine, the rollup and the balance, which server.js *)
(* does not implement, are operators written from the design document.     *)
(***************************************************************************)
EXTENDS Integers, Sequences, FiniteSets, TLC

(* ------------------------------ bounds -------------------------------- *)

\* rows the "transaction" table may hold
MaxTransactions == 2
\* payment intents the gateway may hold
MaxIntents == 1
\* rows the order_line_item table may hold
MaxLineItems == 2
\* the largest quantity of a line item that is priced
MaxQuantity == 3
MaxRequests == 3
MaxClock == 2

(* ------------------------------ values -------------------------------- *)

\* SQL NULL / a JSON field that is absent (undefined)
NULL == "NULL"

\* rows of "order" and customer that exist; UnknownId is a well-formed UUID
\* that names no row
OrderIds == {"o1", "o2"}
CustomerIds == {"c1"}
UnknownId == "u0"
\* the id gen_random_uuid() gives the order that POST /api/orders stores
NewOrderId == "o3"
Company == "co1"
Location == "loc1"
\* what uuidv4() returns
FreshUuid == "fresh"
\* the text server.js stores as company_id when the intent's metadata has none
DefaultCompany == "default"

\* the values PostgreSQL accepts for a column of type UUID
Uuids ==
    OrderIds \cup CustomerIds \cup {UnknownId, Company, Location, FreshUuid, NewOrderId}

\* the amounts of the payment intents
IntentAmounts == {25000}

\* the gateway's payment intent statuses (the ones the model distinguishes)
IntentStatuses == {"requires_payment_method", "succeeded", "canceled"}
TerminalIntentStatuses == {"succeeded", "canceled"}

\* the statuses of the specification's transaction state machine
LedgerStatuses == {"pending", "succeeded", "failed", "voided"}

VARIABLES
    transaction,     \* the "transaction" table: row id = index
    intents,         \* the gateway's payment intents: intent id = index
    customer,        \* customer id -> stripe_customer_id (NULL: none yet), the
                     \* column create-intent reads and writes
    authorization,   \* the "authorization" table
    last,            \* the response the last handler sent
    refunds,         \* the gateway's refunds: refund id = index
    order,           \* the "order" table: order id -> row
    order_line_item, \* the order_line_item table: row id = index
    request,         \* the create-intent requests in flight: request -> the
                     \* await it stands at, its body and its stripeCustomerId
    stripe_customers,\* the gateway's customers: id = StripeCustomerId(index),
                     \* value = the metadata customer_id
    user,            \* the "user" table: user id -> exists, active, refresh_token
    clock,           \* the time in seconds, the iat claim of a token signed now
    issued,          \* the refresh tokens that register and login have answered
    auth_last,       \* the response the last handler of auth.js sent
    query,           \* req.query of a list request: the strings page and limit
    params,          \* what parseQueryParams returned for it
    runner           \* the migration script: where it stands, the directory
                     \* it reads, its locals, the files it ran, its exit code

\* the create-intent requests in flight and what they made at the gateway
requestVars == <<request, stripe_customers>>

\* the accounts, their tokens and the clock that signs them
authVars == <<user, clock, issued, auth_last>>

\* a list request and its pagination
queryVars == <<query, params>>

vars == <<transaction, intents, customer, authorization, last,
          refunds, order, order_line_item, requestVars, authVars, queryVars,
          runner>>

\* the variables that the handlers of the ledger and the payer's steps at the
\* gateway leave alone
nonLedgerVars == <<refunds, order, order_line_item, requestVars, authVars,
                   queryVars, runner>>

\* the variables that the handlers of orders and line items leave alone
nonOrderVars == <<transaction, intents, customer, authorization, refunds,
                  requestVars, authVars, queryVars, runner>>

(* --------------------------- request bodies --------------------------- *)

\* a || b of JavaScript on an optional text field: an absent one is falsy
Or(a, b) == IF a = NULL THEN b ELSE a

\* COALESCE(a, b) of SQL
Coalesce(a, b) == IF a = NULL THEN b ELSE a

\* !x of JavaScript: on an optional text field, and on an amount (a missing
\* amount and the amount 0 are both falsy; the model writes both as 0)
Missing(x) == x = NULL
NoAmount(n) == n = 0

\* The request bodies of a handler: a well-formed body, the well-formed
\* bodies that differ from it, and the bodies that miss one field or name a
\* row that does not exist.

\* bodies of POST /api/transactions; status is a field the handler does not
\* destructure
TransactionBody ==
    [company_id |-> NULL, location_id |-> Location, order_id |-> "o1",
     customer_id |-> "c1", transaction_type |-> NULL, amount_cents |-> 3000,
     payment_method |-> "cash", note |-> NULL, status |-> "paid"]

TransactionBodies ==
    {[TransactionBody EXCEPT !.order_id = o, !.transaction_type = t] :
        o \in OrderIds, t \in {NULL, "refund"}}
    \cup {[TransactionBody EXCEPT !.company_id = Company, !.note = "n",
                                 !.transaction_type = "payment",
                                 !.payment_method = NULL, !.amount_cents = 10000,
                                 !.status = "succeeded"]}
    \cup {[TransactionBody EXCEPT !.order_id = o] : o \in {NULL, UnknownId}}
    \cup {[TransactionBody EXCEPT !.customer_id = c] : c \in {NULL, UnknownId}}
    \cup {[TransactionBody EXCEPT !.location_id = NULL],
          [TransactionBody EXCEPT !.amount_cents = 0]}

\* bodies of PUT /api/transactions/:id
TransactionUpdates ==
    [status : {NULL, "pending", "succeeded", "failed", "voided", "paid"},
     applied_date : {NULL}, note : {NULL}]
    \cup
    {[status |-> NULL, applied_date |-> "d1", note |-> "n2"]}

\* bodies of POST /api/payments/create-intent
IntentBody == [order_id |-> "o1", amount_cents |-> 25000, customer_id |-> "c1"]

IntentBodies ==
    {[IntentBody EXCEPT !.amount_cents = a] : a \in IntentAmounts}
    \cup {[IntentBody EXCEPT !.order_id = NULL], [IntentBody EXCEPT !.amount_cents = 0]}
    \cup {[IntentBody EXCEPT !.customer_id = c] : c \in {NULL, UnknownId}}

\* bodies of POST /api/payments/confirm; amount_cents is a field the handler
\* does not destructure
ConfirmBody ==
    [payment_intent_id |-> 1, order_id |-> "o1", customer_id |-> "c1",
     location_id |-> Location, amount_cents |-> 100]

ConfirmBodies ==
    {[ConfirmBody EXCEPT !.payment_intent_id = i, !.order_id = o, !.location_id = l] :
        i \in 1 .. MaxIntents, o \in OrderIds, l \in {NULL, Location}}
    \cup {[ConfirmBody EXCEPT !.payment_intent_id = 0],
          [ConfirmBody EXCEPT !.order_id = NULL],
          [ConfirmBody EXCEPT !.order_id = UnknownId],
          [ConfirmBody EXCEPT !.customer_id = NULL]}

(* ------------------------------ responses ----------------------------- *)

\* op: the handler; code: the HTTP status; ref: the payment intent of the
\* request (0: none); txn: the id of the transaction row in the body (0: none);
\* gw: the intent status the gateway answered ("error": the call failed or
\* timed out, "missing": the gateway knows no such intent, NULL: no call made)
Response(op, code, ref, txn, gw) ==
    [op |-> op, code |-> code, ref |-> ref, txn |-> txn, gw |-> gw]

(* ------------------------- the "transaction" table --------------------- *)

\* CREATE TABLE "transaction": the NOT NULL columns, the UUID columns and the
\* two foreign keys decide whether an INSERT succeeds or throws
\* an INSERT that does not check the foreign key to "order"
InsertTransactionOkWithoutOrderKey(row) ==
    /\ row.company_id \in Uuids
    /\ row.location_id \in Uuids
    /\ row.order_id \in Uuids
    /\ row.customer_id \in CustomerIds
    /\ row.transaction_type # NULL

InsertTransactionOk(row) ==
    /\ row.company_id \in Uuids
    /\ row.location_id \in Uuids
    /\ row.order_id \in DOMAIN order
    /\ row.customer_id \in CustomerIds
    /\ row.transaction_type # NULL

(* ---------------------- POST /api/transactions ------------------------ *)

\* a row that takes the status from the request body
NewTransactionWithBodyStatus(b) ==
    [company_id |-> Or(b.company_id, FreshUuid),
     location_id |-> b.location_id,
     order_id |-> b.order_id,
     customer_id |-> b.customer_id,
     transaction_type |-> Or(b.transaction_type, "payment"),
     status |-> Or(b.status, "pending"),
     amount_cents |-> b.amount_cents,
     payment_method |-> b.payment_method,
     payment_reference |-> 0,
     applied_date |-> NULL,
     note |-> Or(b.note, "")]

NewTransaction(b) ==
    [company_id |-> Or(b.company_id, FreshUuid),
     location_id |-> b.location_id,
     order_id |-> b.order_id,
     customer_id |-> b.customer_id,
     transaction_type |-> Or(b.transaction_type, "payment"),
     status |-> "pending",
     amount_cents |-> b.amount_cents,
     payment_method |-> b.payment_method,
     payment_reference |-> 0,
     applied_date |-> NULL,
     note |-> Or(b.note, "")]

PostTransaction(b) ==
    /\ UNCHANGED <<intents, customer, authorization, nonLedgerVars>>
    /\ IF Missing(b.order_id) \/ Missing(b.customer_id)
          \/ NoAmount(b.amount_cents) \/ Missing(b.location_id)
       THEN /\ last' = Response("post_transaction", 400, 0, 0, NULL)
            /\ UNCHANGED transaction
       ELSE IF ~InsertTransactionOk(NewTransaction(b))
       THEN \* the INSERT throws; asyncHandler passes it on and express answers 500
            /\ last' = Response("post_transaction", 500, 0, 0, NULL)
            /\ UNCHANGED transaction
       ELSE /\ Len(transaction) < MaxTransactions
            /\ transaction' = Append(transaction, NewTransaction(b))
            /\ last' = Response("post_transaction", 201, 0, Len(transaction) + 1, NULL)

(* ---------------------- PUT /api/transactions/:id --------------------- *)

\* an update that zeroes the amount of a transaction it voids
UpdatedTransactionZeroingVoided(row, u) ==
    [row EXCEPT !.status = Coalesce(u.status, row.status),
                !.applied_date = Coalesce(u.applied_date, row.applied_date),
                !.note = Coalesce(u.note, row.note),
                !.amount_cents = IF u.status = "voided" THEN 0 ELSE row.amount_cents]

UpdatedTransaction(row, u) ==
    [row EXCEPT !.status = Coalesce(u.status, row.status),
                !.applied_date = Coalesce(u.applied_date, row.applied_date),
                !.note = Coalesce(u.note, row.note)]

PutTransaction(id, u) ==
    /\ UNCHANGED <<intents, customer, authorization, nonLedgerVars>>
    /\ IF id \in DOMAIN transaction
       THEN /\ transaction' = [transaction EXCEPT ![id] = UpdatedTransaction(transaction[id], u)]
            /\ last' = Response("put_transaction", 200, 0, id, NULL)
       ELSE /\ last' = Response("put_transaction", 404, 0, 0, NULL)
            /\ UNCHANGED transaction

(* --------------------------- the gateway ------------------------------ *)

\* the id stripe.customers.create answers for a customer of the shop
NewStripeCustomer(c) == "cus_" \o c

\* a payment intent as the handlers read it: status, amount and the metadata
\* fields order_id, customer_id, company_id and location_id
Intent(amount, order_id, customer_id, company_id, location_id, cus) ==
    [status |-> "requires_payment_method", amount |-> amount,
     order_id |-> order_id, customer_id |-> customer_id,
     company_id |-> company_id, location_id |-> location_id, customer |-> cus]

\* An intent of the same gateway account that another client created, with
\* the metadata company_id and location_id that the confirm handler reads
\* and create-intent never writes.
GatewayExternalIntent(amount, order_id, customer_id) ==
    /\ Len(intents) < MaxIntents
    /\ intents' = Append(intents,
                     Intent(amount, order_id, customer_id, Company, Location, NULL))
    /\ UNCHANGED <<transaction, customer, authorization, last, nonLedgerVars>>

\* The payer acts on an intent at the gateway: it moves between the open
\* statuses and ends succeeded or canceled.
GatewayIntentStatus(i, s) ==
    /\ i \in DOMAIN intents
    /\ intents[i].status \notin TerminalIntentStatuses
    /\ s # intents[i].status
    /\ intents' = [intents EXCEPT ![i].status = s]
    /\ UNCHANGED <<transaction, customer, authorization, last, nonLedgerVars>>

(* ------------------ POST /api/payments/create-intent ------------------ *)

\* outcome: which gateway call throws, if any
CreateIntentOutcomes == {"ok", "customers_error", "intents_error"}

CreateIntent(b, outcome) ==
    /\ UNCHANGED <<transaction, authorization, nonLedgerVars>>
    /\ IF Missing(b.order_id) \/ NoAmount(b.amount_cents) \/ Missing(b.customer_id)
       THEN /\ last' = Response("create_intent", 400, 0, 0, NULL)
            /\ UNCHANGED <<intents, customer>>
       ELSE IF b.customer_id \notin CustomerIds
       THEN /\ last' = Response("create_intent", 404, 0, 0, NULL)
            /\ UNCHANGED <<intents, customer>>
       ELSE IF customer[b.customer_id] = NULL /\ outcome = "customers_error"
       THEN /\ last' = Response("create_intent", 500, 0, 0, "error")
            /\ UNCHANGED <<intents, customer>>
       ELSE LET cus == Or(customer[b.customer_id], NewStripeCustomer(b.customer_id))
            IN  /\ customer' = [customer EXCEPT ![b.customer_id] = cus]
                /\ IF outcome = "intents_error"
                   THEN /\ last' = Response("create_intent", 500, 0, 0, "error")
                        /\ UNCHANGED intents
                   ELSE /\ Len(intents) < MaxIntents
                        /\ intents' = Append(intents,
                               Intent(b.amount_cents, b.order_id, b.customer_id,
                                      NULL, NULL, cus))
                        /\ last' = Response("create_intent", 200, Len(intents) + 1, 0,
                                            "requires_payment_method")

(* --------- POST /api/payments/create-intent, await by await ----------- *)

\* The handler awaits four times: the SELECT of the customer, the gateway's
\* customers.create, the UPDATE of customer.stripe_customer_id and the
\* gateway's paymentIntents.create.  Node runs other requests at each await,
\* so concurrent requests interleave between these steps.
Requests == 1 .. MaxRequests

IdleRequest == [pc |-> "idle", body |-> IntentBody, cus |-> NULL]

\* the id the gateway gives to its n-th customer
StripeCustomerId(n) == "cus_" \o ToString(n)

\* validation and SELECT * FROM customer: the request keeps the
\* stripe_customer_id it read
CreateIntentSelect(r, b) ==
    /\ request[r].pc = "idle"
    /\ UNCHANGED <<transaction, intents, customer, authorization, refunds,
                   order, order_line_item, stripe_customers, authVars, queryVars, runner>>
    /\ IF Missing(b.order_id) \/ NoAmount(b.amount_cents) \/ Missing(b.customer_id)
       THEN /\ request' = [request EXCEPT ![r] = [pc |-> "done", body |-> b, cus |-> NULL]]
            /\ last' = Response("create_intent", 400, 0, 0, NULL)
       ELSE IF b.customer_id \notin CustomerIds
       THEN /\ request' = [request EXCEPT ![r] = [pc |-> "done", body |-> b, cus |-> NULL]]
            /\ last' = Response("create_intent", 404, 0, 0, NULL)
       ELSE /\ request' = [request EXCEPT ![r] =
                              [pc |-> IF customer[b.customer_id] = NULL
                                      THEN "customers.create"
                                      ELSE "paymentIntents.create",
                               body |-> b,
                               cus |-> customer[b.customer_id]]]
            /\ UNCHANGED last

\* stripe.customers.create answers a new gateway customer
StripeCustomersCreate(r) ==
    /\ request[r].pc = "customers.create"
    /\ stripe_customers' = Append(stripe_customers, request[r].body.customer_id)
    /\ request' = [request EXCEPT ![r].pc = "update",
                                  ![r].cus = StripeCustomerId(Len(stripe_customers) + 1)]
    /\ UNCHANGED <<transaction, intents, customer, authorization, refunds,
                   order, order_line_item, last, authVars, queryVars, runner>>

\* a gateway call throws: the catch answers 500
CreateIntentGatewayError(r) ==
    /\ request[r].pc \in {"customers.create", "paymentIntents.create"}
    /\ request' = [request EXCEPT ![r].pc = "done"]
    /\ last' = Response("create_intent", 500, 0, 0, "error")
    /\ UNCHANGED <<transaction, intents, customer, authorization, refunds,
                   order, order_line_item, stripe_customers, authVars, queryVars, runner>>

\* UPDATE customer SET stripe_customer_id = $1 WHERE id = $2
CreateIntentUpdate(r) ==
    /\ request[r].pc = "update"
    /\ customer' = [customer EXCEPT ![request[r].body.customer_id] = request[r].cus]
    /\ request' = [request EXCEPT ![r].pc = "paymentIntents.create"]
    /\ UNCHANGED <<transaction, intents, authorization, refunds,
                   order, order_line_item, stripe_customers, last, authVars, queryVars, runner>>

\* stripe.paymentIntents.create for the customer the request holds, and the
\* answer
StripePaymentIntentsCreate(r) ==
    /\ request[r].pc = "paymentIntents.create"
    /\ intents' = Append(intents,
                     Intent(request[r].body.amount_cents, request[r].body.order_id,
                            request[r].body.customer_id, NULL, NULL, request[r].cus))
    /\ request' = [request EXCEPT ![r].pc = "done"]
    /\ last' = Response("create_intent", 200, Len(intents) + 1, 0,
                        "requires_payment_method")
    /\ UNCHANGED <<transaction, customer, authorization, refunds,
                   order, order_line_item, stripe_customers, authVars, queryVars, runner>>

(* -------------------- POST /api/payments/confirm ---------------------- *)

\* outcome of stripe.paymentIntents.retrieve: answered, or thrown (network
\* failure, timeout)
RetrieveOutcomes == {"ok", "error"}

\* a row that takes the amount from the request body
ConfirmedTransactionWithBodyAmount(b, pi, id) ==
    [company_id |-> Or(pi.company_id, DefaultCompany),
     location_id |-> Or(b.location_id, pi.location_id),
     order_id |-> b.order_id,
     customer_id |-> b.customer_id,
     transaction_type |-> "payment",
     status |-> "paid",
     amount_cents |-> b.amount_cents,
     payment_method |-> "stripe",
     payment_reference |-> id,
     applied_date |-> NULL,
     note |-> NULL]

ConfirmedTransaction(b, pi, id) ==
    [company_id |-> Or(pi.company_id, DefaultCompany),
     location_id |-> Or(b.location_id, pi.location_id),
     order_id |-> b.order_id,
     customer_id |-> b.customer_id,
     transaction_type |-> "payment",
     status |-> "paid",
     amount_cents |-> pi.amount,
     payment_method |-> "stripe",
     payment_reference |-> id,
     applied_date |-> NULL,
     note |-> NULL]

ConfirmPayment(b, outcome) ==
    LET id == b.payment_intent_id IN
    /\ UNCHANGED <<intents, customer, authorization, nonLedgerVars>>
    /\ IF id = 0 \/ Missing(b.order_id) \/ Missing(b.customer_id)
       THEN /\ last' = Response("confirm", 400, id, 0, NULL)
            /\ UNCHANGED transaction
       ELSE IF id \notin DOMAIN intents
       THEN \* the gateway knows no such intent: retrieve throws, caught, 500
            /\ last' = Response("confirm", 500, id, 0, "missing")
            /\ UNCHANGED transaction
       ELSE IF outcome = "error"
       THEN \* retrieve throws (network failure, timeout): caught, 500
            /\ last' = Response("confirm", 500, id, 0, "error")
            /\ UNCHANGED transaction
       ELSE IF intents[id].status # "succeeded"
       THEN /\ last' = Response("confirm", 400, id, 0, intents[id].status)
            /\ UNCHANGED transaction
       ELSE IF ~InsertTransactionOk(ConfirmedTransaction(b, intents[id], id))
       THEN \* the INSERT throws: caught by the same try, 500
            /\ last' = Response("confirm", 500, id, 0, "succeeded")
            /\ UNCHANGED transaction
       ELSE /\ Len(transaction) < MaxTransactions
            /\ transaction' = Append(transaction,
                                     ConfirmedTransaction(b, intents[id], id))
            /\ last' = Response("confirm", 200, id, Len(transaction) + 1, "succeeded")

(* ----------------- GET /api/payments/:payment_intent_id ---------------- *)

\* The handler answers with what stripe.paymentIntents.retrieve returns and
\* writes nothing.
GetPaymentStatus(id, outcome) ==
    /\ UNCHANGED <<transaction, intents, customer, authorization, nonLedgerVars>>
    /\ IF id \notin DOMAIN intents
       THEN last' = Response("payment_status", 500, id, 0, "missing")
       ELSE IF outcome = "error"
       THEN last' = Response("payment_status", 500, id, 0, "error")
       ELSE last' = Response("payment_status", 200, id, 0, intents[id].status)

(* --------------------- POST /api/payments/refund ---------------------- *)

\* bodies of POST /api/payments/refund
RefundBodies == [payment_intent_id : 0 .. MaxIntents, reason : {NULL, "duplicate"}]

\* the refund stripe.refunds.create makes when no amount is given: the whole
\* amount of the intent
NewRefund(id, reason) ==
    [payment_intent |-> id, amount |-> intents[id].amount,
     reason |-> Or(reason, "requested_by_customer"), status |-> "succeeded"]

\* the gateway refunds an intent that was charged and is not yet refunded
Refundable(id) ==
    /\ intents[id].status = "succeeded"
    /\ \A r \in DOMAIN refunds : refunds[r].payment_intent # id

RefundPayment(b, outcome) ==
    LET id == b.payment_intent_id IN
    /\ UNCHANGED <<transaction, intents, customer, authorization, order,
                   order_line_item, requestVars, authVars, queryVars, runner>>
    /\ IF id = 0
       THEN /\ last' = Response("refund", 400, id, 0, NULL)
            /\ UNCHANGED refunds
       ELSE IF id \notin DOMAIN intents
       THEN /\ last' = Response("refund", 500, id, 0, "missing")
            /\ UNCHANGED refunds
       ELSE IF outcome = "error" \/ ~Refundable(id)
       THEN \* refunds.create throws: caught, 500
            /\ last' = Response("refund", 500, id, 0, "error")
            /\ UNCHANGED refunds
       ELSE /\ refunds' = Append(refunds, NewRefund(id, b.reason))
            /\ last' = Response("refund", 200, id, 0, "refunded")

(* -------------------------- the "order" table -------------------------- *)

\* SQL NULL in a numeric column, and a numeric field that a body leaves out
NoNumber == -1000000

\* COALESCE(a, b) of SQL on a numeric column
CoalesceNumber(a, b) == IF a = NoNumber THEN b ELSE a

\* a || 0 of JavaScript on a numeric field: absent and 0 are falsy
OrZero(n) == IF n = NoNumber THEN 0 ELSE n

\* bodies of POST /api/orders; calculated_total_cents is a field the handler
\* does not destructure
OrderBody ==
    [company_id |-> NULL, location_id |-> Location, customer_id |-> "c1",
     service_writer_id |-> NULL, note |-> NULL, priority |-> NULL,
     status |-> NULL, calculated_total_cents |-> NoNumber]

OrderBodies ==
    {OrderBody,
     [OrderBody EXCEPT !.company_id = Company, !.note = "n", !.status = "estimate",
                       !.calculated_total_cents = 99900],
     [OrderBody EXCEPT !.customer_id = NULL],
     [OrderBody EXCEPT !.customer_id = UnknownId],
     [OrderBody EXCEPT !.location_id = NULL]}

\* the row the INSERT of POST /api/orders stores: the columns it lists, and
\* the column defaults of CREATE TABLE "order" for the ones it does not
NewOrder(b) ==
    [company_id |-> Or(b.company_id, FreshUuid),
     location_id |-> b.location_id,
     customer_id |-> b.customer_id,
     service_writer_id |-> b.service_writer_id,
     note |-> Or(b.note, ""),
     priority |-> Or(b.priority, "normal"),
     status |-> Or(b.status, "open"),
     calculated_labor_cents |-> 0,
     calculated_parts_cents |-> 0,
     calculated_subcontracts_cents |-> 0,
     calculated_shop_supplies_cents |-> 0,
     calculated_discount_cents |-> 0,
     calculated_tax_cents |-> 0,
     calculated_subtotal_cents |-> 0,
     calculated_total_cents |-> 0,
     discount_percent |-> 0,
     tax_percent |-> 0,
     deleted |-> FALSE]

\* CREATE TABLE "order": NOT NULL and UUID columns and the foreign key
InsertOrderOk(row) ==
    /\ row.company_id \in Uuids
    /\ row.location_id \in Uuids
    /\ row.customer_id \in CustomerIds

PostOrder(b) ==
    /\ UNCHANGED <<nonOrderVars, order_line_item>>
    /\ IF Missing(b.customer_id) \/ Missing(b.location_id)
       THEN /\ last' = Response("post_order", 400, 0, 0, NULL)
            /\ UNCHANGED order
       ELSE IF ~InsertOrderOk(NewOrder(b))
       THEN /\ last' = Response("post_order", 500, 0, 0, NULL)
            /\ UNCHANGED order
       ELSE /\ NewOrderId \notin DOMAIN order
            /\ order' = [o \in DOMAIN order \cup {NewOrderId} |->
                            IF o = NewOrderId THEN NewOrder(b) ELSE order[o]]
            /\ last' = Response("post_order", 201, 0, 0, NULL)

\* bodies of PUT /api/orders/:id; calculated_total_cents is a field the
\* handler does not destructure
OrderUpdate ==
    [note |-> NULL, priority |-> NULL, status |-> NULL,
     service_writer_id |-> NULL, calculated_total_cents |-> NoNumber]

OrderUpdates ==
    {OrderUpdate,
     [OrderUpdate EXCEPT !.note = "n2", !.priority = "high", !.status = "invoiced"],
     [OrderUpdate EXCEPT !.calculated_total_cents = 99900]}

\* an update that takes the cached total from the body
UpdatedOrderWithTotal(row, u) ==
    [row EXCEPT !.note = Coalesce(u.note, row.note),
                !.priority = Coalesce(u.priority, row.priority),
                !.status = Coalesce(u.status, row.status),
                !.service_writer_id = Coalesce(u.service_writer_id, row.service_writer_id),
                !.calculated_total_cents =
                    CoalesceNumber(u.calculated_total_cents, row.calculated_total_cents)]

UpdatedOrder(row, u) ==
    [row EXCEPT !.note = Coalesce(u.note, row.note),
                !.priority = Coalesce(u.priority, row.priority),
                !.status = Coalesce(u.status, row.status),
                !.service_writer_id = Coalesce(u.service_writer_id, row.service_writer_id)]

PutOrder(id, u) ==
    /\ UNCHANGED <<nonOrderVars, order_line_item>>
    /\ IF id \in DOMAIN order
       THEN /\ order' = [order EXCEPT ![id] = UpdatedOrder(order[id], u)]
            /\ last' = Response("put_order", 200, 0, 0, NULL)
       ELSE /\ last' = Response("put_order", 404, 0, 0, NULL)
            /\ UNCHANGED order

(* ----------------------- the order_line_item table --------------------- *)

\* bodies of POST /api/order-line-items; the discount and tax fields are
\* fields the handler does not destructure
LineItemBody ==
    [company_id |-> NULL, location_id |-> Location, order_id |-> "o1",
     name |-> "brakes", category |-> "labor", pricing |-> NULL,
     quantity |-> 1, fixed_price_cents |-> 10000, labor_hours |-> NoNumber,
     note |-> NULL, discount_cents |-> NoNumber, discount_percent |-> NoNumber,
     tax_cents |-> NoNumber, tax_percent |-> NoNumber]

LineItemBodies ==
    {LineItemBody,
     [LineItemBody EXCEPT !.order_id = "o2", !.category = "parts",
                          !.fixed_price_cents = 5000],
     [LineItemBody EXCEPT !.quantity = -1],
     [LineItemBody EXCEPT !.fixed_price_cents = -500],
     [LineItemBody EXCEPT !.pricing = "labor", !.fixed_price_cents = NoNumber,
                          !.quantity = NoNumber, !.labor_hours = -2],
     [LineItemBody EXCEPT !.name = "pads",
                          !.discount_cents = 500, !.discount_percent = 10,
                          !.tax_cents = 800, !.tax_percent = 8],
     [LineItemBody EXCEPT !.order_id = NULL],
     [LineItemBody EXCEPT !.order_id = UnknownId],
     [LineItemBody EXCEPT !.name = NULL],
     [LineItemBody EXCEPT !.location_id = NULL]}

\* a row that takes the discount and the tax from the body
NewLineItemWithDiscount(b) ==
    [company_id |-> Or(b.company_id, FreshUuid),
     location_id |-> b.location_id,
     order_id |-> b.order_id,
     name |-> b.name,
     category |-> b.category,
     pricing |-> Or(b.pricing, "fixed"),
     quantity |-> b.quantity,
     fixed_price_cents |-> OrZero(b.fixed_price_cents),
     labor_hours |-> b.labor_hours,
     note |-> Or(b.note, ""),
     labor_rate_cents |-> NoNumber,
     parts_cost_cents |-> NoNumber,
     discount_cents |-> OrZero(b.discount_cents),
     discount_percent |-> OrZero(b.discount_percent),
     tax_cents |-> OrZero(b.tax_cents),
     tax_percent |-> OrZero(b.tax_percent),
     total_cents |-> 0,
     hidden |-> FALSE]

\* the row the INSERT of POST /api/order-line-items stores: the columns it
\* lists, and the column defaults of CREATE TABLE order_line_item for the
\* ones it does not
NewLineItem(b) ==
    [company_id |-> Or(b.company_id, FreshUuid),
     location_id |-> b.location_id,
     order_id |-> b.order_id,
     name |-> b.name,
     category |-> b.category,
     pricing |-> Or(b.pricing, "fixed"),
     quantity |-> b.quantity,
     fixed_price_cents |-> OrZero(b.fixed_price_cents),
     labor_hours |-> b.labor_hours,
     note |-> Or(b.note, ""),
     labor_rate_cents |-> NoNumber,
     parts_cost_cents |-> NoNumber,
     discount_cents |-> 0,
     discount_percent |-> 0,
     tax_cents |-> 0,
     tax_percent |-> 0,
     total_cents |-> 0,
     hidden |-> FALSE]

\* CREATE TABLE order_line_item: UUID columns and the foreign key to "order"
InsertLineItemOk(row) ==
    /\ row.company_id \in Uuids
    /\ row.location_id \in Uuids
    /\ row.order_id \in DOMAIN order

PostLineItem(b) ==
    /\ UNCHANGED <<nonOrderVars, order>>
    /\ IF Missing(b.order_id) \/ Missing(b.name) \/ Missing(b.location_id)
       THEN /\ last' = Response("post_line_item", 400, 0, 0, NULL)
            /\ UNCHANGED order_line_item
       ELSE IF ~InsertLineItemOk(NewLineItem(b))
       THEN /\ last' = Response("post_line_item", 500, 0, 0, NULL)
            /\ UNCHANGED order_line_item
       ELSE /\ Len(order_line_item) < MaxLineItems
            /\ order_line_item' = Append(order_line_item, NewLineItem(b))
            /\ last' = Response("post_line_item", 201, 0, 0, NULL)

\* bodies of PUT /api/order-line-items/:id
LineItemUpdate ==
    [name |-> NULL, quantity |-> NoNumber, fixed_price_cents |-> NoNumber,
     labor_hours |-> NoNumber, note |-> NULL]

LineItemUpdates ==
    {LineItemUpdate,
     [LineItemUpdate EXCEPT !.quantity = 3, !.fixed_price_cents = 20000,
                            !.name = "rotors", !.note = "n3"],
     [LineItemUpdate EXCEPT !.quantity = -1, !.fixed_price_cents = -500,
                            !.labor_hours = -2]}

\* an update that writes the quantity and leaves the other fields of the
\* request to a later statement
UpdatedLineItemQuantityFirst(row, u) ==
    [row EXCEPT !.quantity = CoalesceNumber(u.quantity, row.quantity)]

UpdatedLineItem(row, u) ==
    [row EXCEPT !.name = Coalesce(u.name, row.name),
                !.quantity = CoalesceNumber(u.quantity, row.quantity),
                !.fixed_price_cents =
                    CoalesceNumber(u.fixed_price_cents, row.fixed_price_cents),
                !.labor_hours = CoalesceNumber(u.labor_hours, row.labor_hours),
                !.note = Coalesce(u.note, row.note)]

PutLineItem(id, u) ==
    /\ UNCHANGED <<nonOrderVars, order>>
    /\ IF id \in DOMAIN order_line_item
       THEN /\ order_line_item' =
                   [order_line_item EXCEPT ![id] = UpdatedLineItem(order_line_item[id], u)]
            /\ last' = Response("put_line_item", 200, 0, 0, NULL)
       ELSE /\ last' = Response("put_line_item", 404, 0, 0, NULL)
            /\ UNCHANGED order_line_item

(* ------------------------------ balance ------------------------------- *)

\* "order".calculated_total_cents: DEFAULT 0, and no handler writes it
OrderTotalCents(o) == 0

\* the sum of authorized_cost_cents over the authorizations of an order
RECURSIVE SumAuthorized(_, _, _)
SumAuthorized(auths, o, n) ==
    IF n = 0 THEN 0
    ELSE SumAuthorized(auths, o, n - 1)
         + (IF auths[n].order_id = o THEN auths[n].authorized_cost_cents ELSE 0)

AuthorizedCents(o) == SumAuthorized(authorization, o, Len(authorization))

\* the sum of amount_cents over the first n rows of txns that belong to order
\* o and have the given kind and status
RECURSIVE SumAmounts(_, _, _, _, _)
SumAmounts(txns, o, kind, status, n) ==
    IF n = 0 THEN 0
    ELSE SumAmounts(txns, o, kind, status, n - 1)
         + (IF /\ txns[n].order_id = o
               /\ txns[n].transaction_type = kind
               /\ txns[n].status = status
            THEN txns[n].amount_cents ELSE 0)

Max(a, b) == IF a >= b THEN a ELSE b

\* a paid total that also counts the payments still pending
PaidCentsWithPending(txns, o) ==
    SumAmounts(txns, o, "payment", "succeeded", Len(txns))
    + SumAmounts(txns, o, "payment", "pending", Len(txns))

PaidCents(txns, o) == SumAmounts(txns, o, "payment", "succeeded", Len(txns))

RefundedCents(txns, o) == SumAmounts(txns, o, "refund", "succeeded", Len(txns))

\* a balance that folds an overpayment into a negative amount due
DueCentsUnclamped(txns, o) ==
    OrderTotalCents(o) - PaidCents(txns, o) + RefundedCents(txns, o)

DueCents(txns, o) ==
    Max(0, OrderTotalCents(o) - PaidCents(txns, o) + RefundedCents(txns, o))

CreditCents(txns, o) ==
    Max(0, PaidCents(txns, o) - RefundedCents(txns, o) - OrderTotalCents(o))

\* balance(order, transactions) of the ledger design
Balance(txns, o) ==
    [total_cents |-> OrderTotalCents(o),
     paid_cents |-> PaidCents(txns, o),
     refunded_cents |-> RefundedCents(txns, o),
     due_cents |-> DueCents(txns, o),
     credit_cents |-> CreditCents(txns, o)]

(* ------------------------- line item pricing -------------------------- *)

\* apply_percent(base_cents, percent): percent of base, rounded half up to
\* the nearest cent
ApplyPercent(base_cents, percent) == (base_cents * percent + 50) \div 100

\* the quantity the price of an item is taken for: the labor hours of an item
\* priced by labor rate, the quantity of any other
QuantityOf(item) ==
    IF item.pricing = "labor" THEN OrZero(item.labor_hours) ELSE OrZero(item.quantity)

WithQuantity(item, q) ==
    IF item.pricing = "labor" THEN [item EXCEPT !.labor_hours = q]
    ELSE [item EXCEPT !.quantity = q]

\* the base of an item: its fixed price, or its unit rate times its quantity
BaseCents(item) ==
    IF item.pricing = "fixed" THEN OrZero(item.fixed_price_cents)
    ELSE IF item.pricing = "labor" THEN OrZero(item.labor_rate_cents) * QuantityOf(item)
    ELSE OrZero(item.parts_cost_cents) * QuantityOf(item)

\* an item compute_line_total prices; any other is rejected as InvalidLineItem
ValidLineItem(item) == QuantityOf(item) >= 0 /\ BaseCents(item) >= 0

LineDiscountCents(item) ==
    IF item.discount_cents # 0 THEN item.discount_cents
    ELSE ApplyPercent(BaseCents(item), item.discount_percent)

\* the base less the discount, without the floor at zero
PostDiscountCentsUnfloored(item) == BaseCents(item) - LineDiscountCents(item)

PostDiscountCents(item) == Max(0, BaseCents(item) - LineDiscountCents(item))

LineTaxCents(item, taxable) ==
    IF ~taxable THEN 0
    ELSE IF item.tax_cents # 0 THEN item.tax_cents
    ELSE ApplyPercent(PostDiscountCents(item), item.tax_percent)

\* compute_line_total(item), with the explicit taxable input
ComputeLineTotal(item, taxable) == PostDiscountCents(item) + LineTaxCents(item, taxable)

(* ---------------------------- order rollup ---------------------------- *)

\* the line items of order o, in the order of the table
LineItemsOf(items, o) == SelectSeq(items, LAMBDA r : r.order_id = o)

\* the category tags of the rollup and the column that reports each
Categories == {"labor", "parts", "subcontract", "shop_supply"}

\* a category sum that also counts the hidden items
RECURSIVE SumPostDiscountWithHidden(_, _, _)
SumPostDiscountWithHidden(items, cats, n) ==
    IF n = 0 THEN 0
    ELSE SumPostDiscountWithHidden(items, cats, n - 1)
         + (IF items[n].category \in cats THEN PostDiscountCents(items[n]) ELSE 0)

\* the sum of the post-discount amounts of the first n items that are not
\* hidden and belong to one of the categories cats
RECURSIVE SumPostDiscount(_, _, _)
SumPostDiscount(items, cats, n) ==
    IF n = 0 THEN 0
    ELSE SumPostDiscount(items, cats, n - 1)
         + (IF ~items[n].hidden /\ items[n].category \in cats
            THEN PostDiscountCents(items[n]) ELSE 0)

\* the sum of the line taxes of the first n items that are not hidden; a
\* line item of the table carries no taxable flag of its own and is taxable
RECURSIVE SumLineTax(_, _)
SumLineTax(items, n) ==
    IF n = 0 THEN 0
    ELSE SumLineTax(items, n - 1)
         + (IF ~items[n].hidden THEN LineTaxCents(items[n], TRUE) ELSE 0)

\* the sum of the post-discount amounts of the first n items that are not
\* hidden, whatever their category
RECURSIVE SumVisible(_, _)
SumVisible(items, n) ==
    IF n = 0 THEN 0
    ELSE SumVisible(items, n - 1)
         + (IF ~items[n].hidden THEN PostDiscountCents(items[n]) ELSE 0)

SubtotalCents(items) == SumVisible(items, Len(items))

Min(a, b) == IF a <= b THEN a ELSE b

OrderDiscountCents(ord, items) ==
    Min(SubtotalCents(items), ApplyPercent(SubtotalCents(items), ord.discount_percent))

\* an order tax that is taken on the line taxes as well
OrderTaxCentsCompounding(ord, items) ==
    ApplyPercent(SubtotalCents(items) - OrderDiscountCents(ord, items)
                     + SumLineTax(items, Len(items)),
                 ord.tax_percent)

OrderTaxCents(ord, items) ==
    ApplyPercent(SubtotalCents(items) - OrderDiscountCents(ord, items), ord.tax_percent)

\* a rollup that patches the stored total with the new one
RecomputeOrderTotalsPatching(ord, items) ==
    [calculated_labor_cents |-> SumPostDiscount(items, {"labor"}, Len(items)),
     calculated_parts_cents |-> SumPostDiscount(items, {"parts"}, Len(items)),
     calculated_subcontracts_cents |-> SumPostDiscount(items, {"subcontract"}, Len(items)),
     calculated_shop_supplies_cents |-> SumPostDiscount(items, {"shop_supply"}, Len(items)),
     calculated_discount_cents |-> OrderDiscountCents(ord, items),
     calculated_tax_cents |-> OrderTaxCents(ord, items) + SumLineTax(items, Len(items)),
     calculated_subtotal_cents |-> SubtotalCents(items),
     calculated_total_cents |->
         ord.calculated_total_cents
         + SubtotalCents(items) - OrderDiscountCents(ord, items)
         + OrderTaxCents(ord, items) + SumLineTax(items, Len(items))]

\* recompute_order_totals(order, line_items): the totals of an order, named
\* by the columns of "order" that cache them
RecomputeOrderTotals(ord, items) ==
    [calculated_labor_cents |-> SumPostDiscount(items, {"labor"}, Len(items)),
     calculated_parts_cents |-> SumPostDiscount(items, {"parts"}, Len(items)),
     calculated_subcontracts_cents |-> SumPostDiscount(items, {"subcontract"}, Len(items)),
     calculated_shop_supplies_cents |-> SumPostDiscount(items, {"shop_supply"}, Len(items)),
     calculated_discount_cents |-> OrderDiscountCents(ord, items),
     calculated_tax_cents |-> OrderTaxCents(ord, items) + SumLineTax(items, Len(items)),
     calculated_subtotal_cents |-> SubtotalCents(items),
     calculated_total_cents |->
         SubtotalCents(items) - OrderDiscountCents(ord, items)
         + OrderTaxCents(ord, items) + SumLineTax(items, Len(items))]

\* the totals a row of "order" stores
StoredTotals(ord) ==
    [calculated_labor_cents |-> ord.calculated_labor_cents,
     calculated_parts_cents |-> ord.calculated_parts_cents,
     calculated_subcontracts_cents |-> ord.calculated_subcontracts_cents,
     calculated_shop_supplies_cents |-> ord.calculated_shop_supplies_cents,
     calculated_discount_cents |-> ord.calculated_discount_cents,
     calculated_tax_cents |-> ord.calculated_tax_cents,
     calculated_subtotal_cents |-> ord.calculated_subtotal_cents,
     calculated_total_cents |-> ord.calculated_total_cents]

\* the totals of a row of "order" replaced by the ones of a rollup
WithTotals(ord, totals) ==
    [f \in DOMAIN ord |-> IF f \in DOMAIN totals THEN totals[f] ELSE ord[f]]

\* One pass of the pricing engine over a line item: it rejects an invalid
\* item and stores the total of a valid one in the cache column total_cents.
PriceLine(i) ==
    /\ i \in DOMAIN order_line_item
    /\ UNCHANGED <<nonOrderVars, order>>
    /\ IF ~ValidLineItem(order_line_item[i])
       THEN /\ last' = Response("price_line", 400, 0, 0, "InvalidLineItem")
            /\ UNCHANGED order_line_item
       ELSE /\ order_line_item' =
                   [order_line_item EXCEPT
                       ![i].total_cents = ComputeLineTotal(order_line_item[i], TRUE)]
            /\ last' = Response("price_line", 200, 0, 0, NULL)

\* One rollup pass over order o: it rejects an order with an invalid line
\* item and stores the recomputed totals of any other.  In its response, txn
\* counts the passes made in a row over the order (1, then 2) and gw names
\* the order.
RollupPass(o) ==
    /\ o \in DOMAIN order
    /\ UNCHANGED <<nonOrderVars, order_line_item>>
    /\ IF \E i \in DOMAIN order_line_item :
             order_line_item[i].order_id = o /\ ~ValidLineItem(order_line_item[i])
       THEN /\ last' = Response("rollup", 400, 0, 0, "InvalidLineItem")
            /\ UNCHANGED order
       ELSE /\ order' = [order EXCEPT ![o] =
                   WithTotals(order[o],
                       RecomputeOrderTotals(order[o], LineItemsOf(order_line_item, o)))]
            /\ last' = Response("rollup", 200, 0,
                           IF last.op = "rollup" /\ last.code = 200 /\ last.gw = o
                           THEN 2 ELSE 1,
                           o)

\* the line items the pricing engine is applied to
PricedItem ==
    [NewLineItem(LineItemBody) EXCEPT !.labor_rate_cents = 3333,
                                      !.parts_cost_cents = 1999]

Discounts == {<<0, 0>>, <<500, 0>>, <<20000, 0>>, <<0, 15>>, <<0, 100>>}
Taxes == {<<0, 0>>, <<800, 0>>, <<0, 8>>}

PricedItems ==
    {[PricedItem EXCEPT !.pricing = p, !.quantity = q, !.labor_hours = q,
                        !.discount_cents = d[1], !.discount_percent = d[2],
                        !.tax_cents = t[1], !.tax_percent = t[2]] :
        p \in {"fixed", "labor", "parts"}, q \in -1 .. MaxQuantity - 1,
        d \in Discounts, t \in Taxes}

\* the line items the rollup is applied to
RollupItems ==
    {[PricedItem EXCEPT !.discount_cents = d[1], !.discount_percent = d[2],
                        !.tax_percent = t, !.hidden = h] :
        d \in {<<0, 0>>, <<20000, 0>>, <<0, 15>>}, t \in {0, 8}, h \in BOOLEAN}
    \cup {[PricedItem EXCEPT !.pricing = "parts", !.category = "parts", !.quantity = q] :
             q \in {-1, 2}}
    \cup {[PricedItem EXCEPT !.pricing = "parts", !.category = "parts",
                             !.parts_cost_cents = 5000],
          [PricedItem EXCEPT !.category = "subcontract", !.fixed_price_cents = 3333,
                             !.discount_percent = 15, !.tax_cents = 800],
          [PricedItem EXCEPT !.pricing = "labor", !.category = "shop_supply",
                             !.labor_hours = 2, !.hidden = TRUE],
          [PricedItem EXCEPT !.pricing = "labor", !.category = "shop_supply",
                             !.labor_hours = 2, !.tax_percent = 8]}

(* ------------------------------ auth.js ------------------------------- *)

UserIds == {"u1", "u2"}

\* generateRefreshToken: jwt.sign({id}, JWT_SECRET, {expiresIn}) is a function
\* of the user id and of the second it is signed in (the iat claim; exp is
\* iat plus seven days).  Two tokens of one user signed in the same second
\* are the same string.  The clock stays within the seven days of the oldest
\* token, so no token expires.
RefreshToken(u, now) == [id |-> u, iat |-> now, signed |-> TRUE]

\* no token: a NULL refresh_token column, a body without refreshToken
NoToken == [id |-> NULL, iat |-> 0, signed |-> FALSE]

\* a token that was not signed with JWT_SECRET
ForgedToken(u) == [id |-> u, iat |-> 0, signed |-> FALSE]

NoUser == [exists |-> FALSE, active |-> FALSE, refresh_token |-> NoToken]

AuthResponse(op, code, token) == [op |-> op, code |-> code, token |-> token]

authFrame == <<transaction, intents, customer, authorization, last, refunds,
               order, order_line_item, requestVars, queryVars, runner>>

\* POST /api/auth/register; valid: the body passes the validation
Register(u, valid) ==
    /\ UNCHANGED <<authFrame, clock>>
    /\ IF ~valid
       THEN /\ auth_last' = AuthResponse("register", 400, NoToken)
            /\ UNCHANGED <<user, issued>>
       ELSE IF user[u].exists
       THEN /\ auth_last' = AuthResponse("register", 409, NoToken)
            /\ UNCHANGED <<user, issued>>
       ELSE /\ user' = [user EXCEPT ![u] = [exists |-> TRUE, active |-> TRUE,
                                            refresh_token |-> RefreshToken(u, clock)]]
            /\ issued' = issued \cup {RefreshToken(u, clock)}
            /\ auth_last' = AuthResponse("register", 201, RefreshToken(u, clock))

\* POST /api/auth/login; password: bcrypt.compare answers true
Login(u, password) ==
    /\ UNCHANGED <<authFrame, clock>>
    /\ IF ~user[u].exists \/ ~user[u].active \/ ~password
       THEN /\ auth_last' = AuthResponse("login", 401, NoToken)
            /\ UNCHANGED <<user, issued>>
       ELSE /\ user' = [user EXCEPT ![u].refresh_token = RefreshToken(u, clock)]
            /\ issued' = issued \cup {RefreshToken(u, clock)}
            /\ auth_last' = AuthResponse("login", 200, RefreshToken(u, clock))

\* POST /api/auth/logout behind authenticateToken: the caller holds an access
\* token of u when register or login has answered u one
Logout(u) ==
    /\ UNCHANGED <<authFrame, clock, issued>>
    /\ IF (\A t \in issued : t.id # u) \/ ~user[u].exists \/ ~user[u].active
       THEN /\ auth_last' = AuthResponse("logout", 401, NoToken)
            /\ UNCHANGED user
       ELSE /\ user' = [user EXCEPT ![u].refresh_token = NoToken]
            /\ auth_last' = AuthResponse("logout", 200, NoToken)

\* a refresh that trusts every token signed with JWT_SECRET
RefreshStatusOfSignature(t) ==
    IF t = NoToken THEN 400
    ELSE IF ~t.signed THEN 403
    ELSE 200

\* the status POST /api/auth/refresh answers to refreshToken t
RefreshStatus(t) ==
    IF t = NoToken THEN 400
    ELSE IF ~t.signed THEN 403
    ELSE IF user[t.id].exists /\ user[t.id].refresh_token = t /\ user[t.id].active
    THEN 200
    ELSE 401

\* POST /api/auth/refresh
Refresh(t) ==
    /\ auth_last' = AuthResponse("refresh", RefreshStatus(t), t)
    /\ UNCHANGED <<authFrame, user, clock, issued>>

\* PUT /api/users/:id with the field active
PutUser(u, active) ==
    /\ UNCHANGED <<authFrame, clock, issued>>
    /\ IF ~user[u].exists
       THEN /\ auth_last' = AuthResponse("put_user", 404, NoToken)
            /\ UNCHANGED user
       ELSE /\ user' = [user EXCEPT ![u].active = active]
            /\ auth_last' = AuthResponse("put_user", 200, NoToken)

\* a second passes
Tick ==
    /\ clock < MaxClock
    /\ clock' = clock + 1
    /\ UNCHANGED <<authFrame, user, issued, auth_last>>

(* -------------------------- parseQueryParams -------------------------- *)

\* A query-string value is the sequence of its characters; a parameter that
\* is absent is the empty sequence (parseInt answers NaN to both).
DigitChars == <<"0", "1", "2", "3", "4", "5", "6", "7", "8", "9">>

IsDigit(c) == \E d \in DOMAIN DigitChars : DigitChars[d] = c

DigitValue(c) == (CHOOSE d \in DOMAIN DigitChars : DigitChars[d] = c) - 1

\* the result of parseInt when no digit follows the optional sign
NaN == NoNumber - 1

\* the value of the leading digits of s from position i on, after acc
RECURSIVE ParseDigits(_, _, _)
ParseDigits(s, i, acc) ==
    IF i > Len(s) \/ ~IsDigit(s[i]) THEN acc
    ELSE ParseDigits(s, i + 1, acc * 10 + DigitValue(s[i]))

\* parseInt(s): an optional sign, then the leading decimal digits; what
\* follows them is ignored
ParseInt(s) ==
    LET signed == Len(s) > 0 /\ s[1] \in {"-", "+"}
        first == IF signed THEN 2 ELSE 1
    IN  IF first > Len(s) \/ ~IsDigit(s[first]) THEN NaN
        ELSE IF signed /\ s[1] = "-" THEN 0 - ParseDigits(s, first, 0)
        ELSE ParseDigits(s, first, 0)

\* x || d for a number x: 0 and NaN are falsy
OrNumber(x, d) == IF x = 0 \/ x = NaN THEN d ELSE x

DefaultLimit == 20
MaxLimit == 100

NoParams == [page |-> 0, limit |-> 0, offset |-> 0, parsed |-> FALSE]

ParseQueryParams(q) ==
    LET page == OrNumber(ParseInt(q.page), 1)
        limit == Min(OrNumber(ParseInt(q.limit), DefaultLimit), MaxLimit)
    IN  [page |-> page, limit |-> limit, offset |-> (page - 1) * limit,
         parsed |-> TRUE]

\* the page and limit strings of the requests
QueryStrings ==
    {<<>>, <<"a", "b", "c">>, <<"0">>, <<"1">>, <<"3">>, <<"-", "3">>,
     <<"1", "0", "0">>, <<"1", "5", "0">>, <<"1", "2", "p", "x">>,
     <<"2", ".", "7">>}

queryFrame == <<transaction, intents, customer, authorization, last, refunds,
                order, order_line_item, requestVars, authVars, runner>>

\* a list route calls parseQueryParams(req)
ListRequest ==
    /\ ~params.parsed
    /\ params' = ParseQueryParams(query)
    /\ UNCHANGED <<queryFrame, query>>

\* the next request arrives
NextQuery(q) ==
    /\ params.parsed
    /\ query' = q
    /\ params' = NoParams
    /\ UNCHANGED queryFrame

(* ------------------------ the migration runner ------------------------ *)

\* A file of the migrations directory: name is the sequence of the digits
\* its name starts with, sql tells whether the name ends with .sql
MigrationFile(name, sql) == [name |-> name, sql |-> sql]

DirectoryFiles ==
    {MigrationFile(<<"0", "0", "1">>, TRUE), MigrationFile(<<"0", "0", "2">>, TRUE),
     MigrationFile(<<"1", "0">>, TRUE), MigrationFile(<<"2">>, TRUE),
     MigrationFile(<<"0", "0", "3">>, FALSE)}

\* a before b in the order of Array.prototype.sort on strings: code unit by
\* code unit, a proper prefix first
RECURSIVE NameBefore(_, _)
NameBefore(a, b) ==
    IF a = <<>> THEN b # <<>>
    ELSE IF b = <<>> THEN FALSE
    ELSE IF a[1] # b[1] THEN DigitValue(a[1]) < DigitValue(b[1])
    ELSE NameBefore(Tail(a), Tail(b))

\* names.sort()
RECURSIVE SortNames(_)
SortNames(names) ==
    IF names = {} THEN <<>>
    ELSE LET first == CHOOSE n \in names : \A m \in names \ {n} : NameBefore(n, m)
         IN  <<first>> \o SortNames(names \ {first})

\* getMigrationFiles: the .sql files of the directory, sorted by name
GetMigrationFiles(directory) == SortNames({f.name : f \in {g \in directory : g.sql}})

\* the names declared in the scope of the module; successCount and
\* errorCount are locals of runMigrations
ModuleScope ==
    {"fs", "path", "Pool", "pool", "getMigrationFiles", "runMigration",
     "runMigrations"}

NoExit == 0 - 1

\* the script before runMigrations() is called
NotStarted(directory) ==
    [pc |-> "runMigrations", directory |-> directory, migrations |-> <<>>,
     ran |-> <<>>, successCount |-> 0, errorCount |-> 0, exit |-> NoExit]

runnerFrame == <<transaction, intents, customer, authorization, last, refunds,
                 order, order_line_item, requestVars, authVars, queryVars>>

\* runMigrations up to the loop: an empty list returns at once
RunMigrations ==
    /\ runner.pc = "runMigrations"
    /\ LET migrations == GetMigrationFiles(runner.directory)
       IN  runner' = [runner EXCEPT !.migrations = migrations,
                                    !.pc = IF migrations = <<>> THEN "then" ELSE "for"]
    /\ UNCHANGED runnerFrame

\* one turn of the loop: await runMigration(migration), which answers whether
\* pool.query(sql) succeeded, and the counters
RunMigration(success) ==
    /\ runner.pc = "for"
    /\ LET migration == runner.migrations[Len(runner.ran) + 1]
           ran == Append(runner.ran, migration)
       IN  runner' = [runner EXCEPT
              !.ran = ran,
              !.successCount = IF success THEN @ + 1 ELSE @,
              !.errorCount = IF success THEN @ ELSE @ + 1,
              !.pc = IF Len(ran) = Len(runner.migrations) THEN "then" ELSE "for"]
    /\ UNCHANGED runnerFrame

\* .then(() => { pool.end(); process.exit(errorCount > 0 ? 1 : 0) }): reading
\* a name that the scope does not declare throws a ReferenceError, which
\* rejects the promise that .catch handles
Then ==
    /\ runner.pc = "then"
    /\ IF "errorCount" \in ModuleScope
       THEN runner' = [runner EXCEPT !.pc = "exited",
                                     !.exit = IF runner.errorCount > 0 THEN 1 ELSE 0]
       ELSE runner' = [runner EXCEPT !.pc = "catch"]
    /\ UNCHANGED runnerFrame

\* .catch((error) => { ...; process.exit(1) })
Catch ==
    /\ runner.pc = "catch"
    /\ runner' = [runner EXCEPT !.pc = "exited", !.exit = 1]
    /\ UNCHANGED runnerFrame

(* --------------------------- specification ---------------------------- *)

\* no create-intent request is in flight, no account is registered, no list
\* request received
NoRequests ==
    /\ runner = NotStarted({})
    /\ query = [page |-> <<>>, limit |-> <<>>]
    /\ params = NoParams
    /\ request = [r \in Requests |-> IdleRequest]
    /\ stripe_customers = <<>>
    /\ user = [u \in UserIds |-> NoUser]
    /\ clock = 0
    /\ issued = {}
    /\ auth_last = AuthResponse("none", 0, NoToken)

Init ==
    /\ NoRequests
    /\ transaction = <<>>
    /\ intents = <<>>
    /\ customer = [c \in CustomerIds |-> NULL]
    /\ authorization = <<[order_id |-> "o1", customer_id |-> "c1",
                          authorized_cost_cents |-> 20000],
                         [order_id |-> "o2", customer_id |-> "c1",
                          authorized_cost_cents |-> 30000]>>
    /\ last = Response("none", 0, 0, 0, NULL)
    /\ refunds = <<>>
    /\ order = [o \in OrderIds |-> NewOrder(OrderBody)]
    /\ order_line_item = <<>>

Next ==
    \/ \E b \in TransactionBodies : PostTransaction(b)
    \/ \E id \in 1 .. MaxTransactions, u \in TransactionUpdates : PutTransaction(id, u)
    \/ \E b \in IntentBodies, o \in CreateIntentOutcomes : CreateIntent(b, o)
    \/ \E b \in ConfirmBodies, o \in RetrieveOutcomes : ConfirmPayment(b, o)
    \/ \E a \in IntentAmounts : GatewayExternalIntent(a, "o1", "c1")
    \/ \E i \in 1 .. MaxIntents, s \in IntentStatuses : GatewayIntentStatus(i, s)

Spec == Init /\ [][Next]_vars

\* the handlers of orders and of their line items
NextOrders ==
    \/ \E b \in OrderBodies : PostOrder(b)
    \/ \E id \in OrderIds \cup {NewOrderId}, u \in OrderUpdates : PutOrder(id, u)
    \/ \E b \in LineItemBodies : PostLineItem(b)
    \/ \E id \in 1 .. MaxLineItems, u \in LineItemUpdates : PutLineItem(id, u)

SpecOrders == Init /\ [][NextOrders]_vars

\* the payment flow at the gateway: intents, their confirmation, the status
\* query and the refund.  Clients poll the status of a payment for as long as
\* they wait for it, so the status query is taken infinitely often.
PollStatus ==
    \E id \in 1 .. MaxIntents, o \in RetrieveOutcomes : GetPaymentStatus(id, o)

NextGateway ==
    \/ \E b \in IntentBodies, o \in CreateIntentOutcomes : CreateIntent(b, o)
    \/ \E a \in IntentAmounts : GatewayExternalIntent(a, "o1", "c1")
    \/ \E i \in 1 .. MaxIntents, s \in IntentStatuses : GatewayIntentStatus(i, s)
    \/ \E b \in ConfirmBodies, o \in RetrieveOutcomes : ConfirmPayment(b, o)
    \/ \E b \in RefundBodies, o \in RetrieveOutcomes : RefundPayment(b, o)
    \/ PollStatus

SpecGateway == Init /\ [][NextGateway]_vars /\ WF_vars(PollStatus)

\* the ledger's own endpoints next to the status query: the only steps that
\* can touch a transaction stored as pending
NextReconcile ==
    \/ \E b \in TransactionBodies : PostTransaction(b)
    \/ \E id \in 1 .. MaxTransactions, u \in TransactionUpdates : PutTransaction(id, u)
    \/ \E a \in IntentAmounts : GatewayExternalIntent(a, "o1", "c1")
    \/ \E i \in 1 .. MaxIntents, s \in IntentStatuses : GatewayIntentStatus(i, s)
    \/ PollStatus

SpecReconcile == Init /\ [][NextReconcile]_vars /\ WF_vars(PollStatus)

\* the pricing engine applied to one line item
InitPricing ==
    /\ NoRequests
    /\ transaction = <<>> /\ intents = <<>> /\ refunds = <<>>
    /\ customer = [c \in CustomerIds |-> NULL]
    /\ authorization = <<>>
    /\ last = Response("none", 0, 0, 0, NULL)
    /\ order = [o \in OrderIds |-> NewOrder(OrderBody)]
    /\ order_line_item \in {<<item>> : item \in PricedItems}

NextPricing == \E i \in 1 .. MaxLineItems : PriceLine(i)

SpecPricing == InitPricing /\ [][NextPricing]_vars

\* the rollup applied to the orders: o1 with an order-level discount and tax
\* and up to MaxLineItems line items, o2 without any
InitRollup ==
    /\ NoRequests
    /\ transaction = <<>> /\ intents = <<>> /\ refunds = <<>>
    /\ customer = [c \in CustomerIds |-> NULL]
    /\ authorization = <<>>
    /\ last = Response("none", 0, 0, 0, NULL)
    /\ \E dp \in {0, 10}, tp \in {0, 8} :
          order = [o \in OrderIds |->
                      IF o = "o1"
                      THEN [NewOrder(OrderBody) EXCEPT !.discount_percent = dp,
                                                       !.tax_percent = tp]
                      ELSE NewOrder(OrderBody)]
    /\ order_line_item \in UNION {[1 .. n -> RollupItems] : n \in 0 .. MaxLineItems}

NextRollup == \E o \in OrderIds : RollupPass(o)

SpecRollup == InitRollup /\ [][NextRollup]_vars

\* the routes that write orders and line items next to the one that stores
\* transactions against them, also against an order created meanwhile
NextReferences ==
    \/ \E b \in OrderBodies : PostOrder(b)
    \/ \E id \in OrderIds \cup {NewOrderId}, u \in OrderUpdates : PutOrder(id, u)
    \/ PostLineItem(LineItemBody)
    \/ \E id \in 1 .. MaxLineItems : PutLineItem(id, LineItemUpdate)
    \/ \E b \in TransactionBodies \cup {[TransactionBody EXCEPT !.order_id = NewOrderId]} :
          PostTransaction(b)

SpecReferences == Init /\ [][NextReferences]_vars

\* Line-item edits next to payment confirmations.  Each handler reaches the
\* database with one SQL statement, which PostgreSQL executes atomically, so
\* concurrent requests interleave as whole steps.
NextConcurrent ==
    \/ \E b \in LineItemBodies : PostLineItem(b)
    \/ \E id \in 1 .. MaxLineItems, u \in LineItemUpdates : PutLineItem(id, u)
    \/ \E a \in IntentAmounts : GatewayExternalIntent(a, "o1", "c1")
    \/ \E i \in 1 .. MaxIntents, s \in IntentStatuses : GatewayIntentStatus(i, s)
    \/ \E o \in RetrieveOutcomes : ConfirmPayment(ConfirmBody, o)

SpecConcurrent == Init /\ [][NextConcurrent]_vars

\* up to MaxRequests concurrent create-intent requests
NextIntents ==
    \/ \E r \in Requests, b \in IntentBodies : CreateIntentSelect(r, b)
    \/ \E r \in Requests : StripeCustomersCreate(r)
    \/ \E r \in Requests : CreateIntentUpdate(r)
    \/ \E r \in Requests : StripePaymentIntentsCreate(r)
    \/ \E r \in Requests : CreateIntentGatewayError(r)

SpecIntents == Init /\ [][NextIntents]_vars

\* the accounts: register, login, logout, refresh and the activation switch
NextAuth ==
    \/ \E u \in UserIds, valid \in BOOLEAN : Register(u, valid)
    \/ \E u \in UserIds, password \in BOOLEAN : Login(u, password)
    \/ \E u \in UserIds : Logout(u)
    \/ \E t \in issued \cup {NoToken} \cup {ForgedToken(u) : u \in UserIds} : Refresh(t)
    \/ \E u \in UserIds, active \in BOOLEAN : PutUser(u, active)
    \/ Tick

SpecAuth == Init /\ [][NextAuth]_vars

\* list requests with every pair of page and limit strings
NextPagination ==
    \/ ListRequest
    \/ \E q \in [page : QueryStrings, limit : QueryStrings] : NextQuery(q)

SpecPagination == Init /\ [][NextPagination]_vars

\* the migration script run on every directory made of DirectoryFiles
InitMigrations ==
    /\ request = [r \in Requests |-> IdleRequest]
    /\ stripe_customers = <<>>
    /\ user = [u \in UserIds |-> NoUser]
    /\ clock = 0
    /\ issued = {}
    /\ auth_last = AuthResponse("none", 0, NoToken)
    /\ query = [page |-> <<>>, limit |-> <<>>]
    /\ params = NoParams
    /\ transaction = <<>> /\ intents = <<>> /\ refunds = <<>>
    /\ customer = [c \in CustomerIds |-> NULL]
    /\ authorization = <<>>
    /\ last = Response("none", 0, 0, 0, NULL)
    /\ order = [o \in OrderIds |-> NewOrder(OrderBody)]
    /\ order_line_item = <<>>
    /\ runner \in {NotStarted(directory) : directory \in SUBSET DirectoryFiles}

NextMigrations ==
    \/ RunMigrations
    \/ \E success \in BOOLEAN : RunMigration(success)
    \/ Then
    \/ Catch

SpecMigrations == InitMigrations /\ [][NextMigrations]_vars

(* ------------------------------- claims ------------------------------- *)

\* the ids of the stored transactions that carry payment reference ref
WithReference(txns, ref) == {t \in DOMAIN txns : txns[t].payment_reference = ref}

\* C1: recording the same gateway charge twice is idempotent: whatever
\* confirmations were made, no payment reference is held by more than one
\* stored transaction, and after a successful confirmation exactly one stored
\* transaction holds the confirmed reference.
C1_OneTransactionPerReference ==
    /\ \A ref \in 1 .. MaxIntents :
          Cardinality(WithReference(transaction, ref)) <= 1
    /\ (last.op = "confirm" /\ last.code = 200)
          => Cardinality(WithReference(transaction, last.ref)) = 1

\* a confirmation that repeats a recorded one: the gateway answers succeeded
\* and transaction t, with status succeeded, already holds the reference for
\* the same order and customer
RepeatsRecorded(b, t) ==
    /\ t \in WithReference(transaction, b.payment_intent_id)
    /\ transaction[t].status = "succeeded"
    /\ transaction[t].order_id = b.order_id
    /\ transaction[t].customer_id = b.customer_id

\* C2: a confirmation whose payment reference already belongs to a succeeded
\* transaction is a safe no-op: it stores nothing and answers, without error,
\* with the transaction that exists.
C2_DuplicateReferenceIsNoOp ==
    [][\A b \in ConfirmBodies, t \in 1 .. MaxTransactions :
          (ConfirmPayment(b, "ok") /\ last'.gw = "succeeded" /\ RepeatsRecorded(b, t))
          => /\ transaction' = transaction
             /\ last'.code = 200
             /\ last'.txn \in WithReference(transaction, b.payment_intent_id)]_vars

\* C3: a confirmed payment that would take the order's paid total past the sum
\* of its authorizations is rejected and stores nothing (the request carries no
\* override flag).
C3_OverAuthorizationRejected ==
    [][\A b \in ConfirmBodies :
          (/\ ConfirmPayment(b, "ok")
           /\ last'.gw = "succeeded"
           /\ b.order_id \in OrderIds
           /\ PaidCents(transaction, b.order_id) + intents[b.payment_intent_id].amount
                 > AuthorizedCents(b.order_id))
          => /\ transaction' = transaction
             /\ last'.code # 200]_vars

\* the sum of amount_cents over a sequence of rows
RECURSIVE SeqAmount(_)
SeqAmount(rows) ==
    IF rows = <<>> THEN 0 ELSE Head(rows).amount_cents + SeqAmount(Tail(rows))

\* the succeeded rows of kind `kind` that belong to order o
Settled(txns, o, kind) ==
    SelectSeq(txns, LAMBDA t : /\ t.order_id = o
                              /\ t.status = "succeeded"
                              /\ t.transaction_type = kind)

AllowedStatusChange(old, new, kind) ==
    \/ old = new
    \/ old = "pending" /\ new \in {"succeeded", "failed"}
    \/ old = "succeeded" /\ new = "voided" /\ kind = "refund"

\* C6: every status change of a stored transaction is pending -> succeeded,
\* pending -> failed, or succeeded -> voided for a refund.
C6_StatusStateMachine ==
    [][\A t \in DOMAIN transaction :
          /\ t \in DOMAIN transaction'
          /\ AllowedStatusChange(transaction[t].status, transaction'[t].status,
                                 transaction[t].transaction_type)]_vars

\* C7: the status of every stored transaction is one of pending, succeeded,
\* failed, voided.
C7_StatusDomain ==
    \A t \in DOMAIN transaction : transaction[t].status \in LedgerStatuses

\* C8: the ledger is append-only: a step keeps every stored transaction, with
\* its amount_cents, transaction_type, order_id, customer_id and
\* payment_reference, and the table never shrinks.
C8_AppendOnly ==
    [][/\ Len(transaction') >= Len(transaction)
       /\ \A t \in DOMAIN transaction :
             /\ t \in DOMAIN transaction'
             /\ transaction'[t].amount_cents = transaction[t].amount_cents
             /\ transaction'[t].transaction_type = transaction[t].transaction_type
             /\ transaction'[t].order_id = transaction[t].order_id
             /\ transaction'[t].customer_id = transaction[t].customer_id
             /\ transaction'[t].payment_reference = transaction[t].payment_reference]_vars

\* the update endpoint has just voided a stored transaction that a payment
\* confirmation recorded, and another transaction was appended before it
C8_Witness ==
    /\ last.op = "put_transaction" /\ last.code = 200
    /\ Len(transaction) = 2
    /\ transaction[last.txn].status = "voided"
    /\ transaction[last.txn].payment_reference # 0
    /\ transaction[last.txn].amount_cents = 25000

\* C9: when the gateway call of a confirmation fails or times out, a pending
\* transaction for that payment is in the ledger once the handler has answered.
C9_GatewayFailureLeavesPending ==
    (last.op = "confirm" /\ last.gw = "error")
        => \E t \in WithReference(transaction, last.ref) :
              transaction[t].status = "pending"

\* C10: when the gateway reports the payment canceled, the confirmation stores
\* a failed transaction for it and leaves the balance of every order as it was.
C10_RejectedStoredAsFailed ==
    [][\A b \in ConfirmBodies :
          (ConfirmPayment(b, "ok") /\ last'.gw = "canceled")
          => /\ \E t \in WithReference(transaction', b.payment_intent_id) :
                   transaction'[t].status = "failed"
             /\ \A o \in OrderIds :
                   Balance(transaction', o) = Balance(transaction, o)]_vars

\* C11: a refund the gateway made for a recorded payment is fed back into the
\* ledger: the step of the refund handler that answers 200 appends a refund
\* transaction, for the refunded amount, on the order of the original payment.
C11_RefundFedBack ==
    [][\A b \in RefundBodies, p \in 1 .. MaxTransactions :
          (/\ RefundPayment(b, "ok")
           /\ last'.code = 200
           /\ p \in WithReference(transaction, b.payment_intent_id))
          => \E t \in DOMAIN transaction' \ DOMAIN transaction :
                /\ transaction'[t].transaction_type = "refund"
                /\ transaction'[t].order_id = transaction[p].order_id
                /\ transaction'[t].amount_cents = intents[b.payment_intent_id].amount]_vars

\* C12: reconciliation is live: while clients keep querying the gateway for
\* the status of payments, a transaction stored as pending does not stay
\* pending for ever.
C12_PendingResolved ==
    \A t \in 1 .. MaxTransactions :
        (t \in DOMAIN transaction /\ transaction[t].status = "pending")
            ~> (t \in DOMAIN transaction /\ transaction[t].status # "pending")

\* C13: a charge that succeeded at the gateway reaches the ledger even when
\* the caller never completes the confirmation: eventually a stored
\* transaction carries the payment reference of the charge.
C13_SucceededChargeRecorded ==
    \A i \in 1 .. MaxIntents :
        (i \in DOMAIN intents /\ intents[i].status = "succeeded")
            ~> (WithReference(transaction, i) # {})

\* every line item of order o is one the pricing engine accepts
AllValid(o) ==
    \A i \in DOMAIN order_line_item :
        order_line_item[i].order_id = o => ValidLineItem(order_line_item[i])

\* C14: after every creation and update of a line item, the totals stored on
\* the owning order are the rollup of its current line items.
C14_TotalsFollowLineItems ==
    \A o \in DOMAIN order :
        AllValid(o)
        => StoredTotals(order[o])
             = RecomputeOrderTotals(order[o], LineItemsOf(order_line_item, o))

\* the column defaults of the cached totals
DefaultTotals ==
    [calculated_labor_cents |-> 0, calculated_parts_cents |-> 0,
     calculated_subcontracts_cents |-> 0, calculated_shop_supplies_cents |-> 0,
     calculated_discount_cents |-> 0, calculated_tax_cents |-> 0,
     calculated_subtotal_cents |-> 0, calculated_total_cents |-> 0]

\* C15: the creation and the update of an order never write the cached
\* totals, whatever the body holds: a step leaves the totals of every order
\* that existed as they were, and an order it creates has them at zero.
C15_OrderWritesKeepTotals ==
    [][\A o \in DOMAIN order' :
          StoredTotals(order'[o]) =
              IF o \in DOMAIN order THEN StoredTotals(order[o]) ELSE DefaultTotals]_vars

\* an order was created with a body that holds calculated_total_cents, and
\* has just been updated
C15_Witness ==
    /\ last.op = "put_order" /\ last.code = 200
    /\ NewOrderId \in DOMAIN order
    /\ order[NewOrderId].company_id = Company
    /\ order[NewOrderId].status = "invoiced"
    /\ order[NewOrderId].calculated_total_cents = 0

\* a numeric column holds no negative number
NotNegative(n) == n = NoNumber \/ n >= 0

\* C17: a negative quantity or amount is rejected before it is stored: no
\* stored line item has a negative quantity, fixed_price_cents or labor_hours.
C17_NoNegativeLineItem ==
    \A i \in DOMAIN order_line_item :
        /\ NotNegative(order_line_item[i].quantity)
        /\ NotNegative(order_line_item[i].fixed_price_cents)
        /\ NotNegative(order_line_item[i].labor_hours)

\* C18: every stored line item has at most one of discount_cents and
\* discount_percent non-zero, and at most one of tax_cents and tax_percent.
C18_DiscountAndTaxExclusive ==
    \A i \in DOMAIN order_line_item :
        /\ ~(order_line_item[i].discount_cents # 0 /\ order_line_item[i].discount_percent # 0)
        /\ ~(order_line_item[i].tax_cents # 0 /\ order_line_item[i].tax_percent # 0)

\* a line item was created with a body that holds both forms of discount and
\* of tax, and was updated afterwards
C18_Witness ==
    \E i \in DOMAIN order_line_item :
        /\ order_line_item[i].name = "pads"
        /\ order_line_item[i].quantity = -1
        /\ order_line_item[i].labor_hours = -2

\* row after is row before with the whole of update u applied: every field
\* the request names has the requested value, every other field is as before
EditApplied(before, after, u) ==
    /\ after.name = (IF u.name = NULL THEN before.name ELSE u.name)
    /\ after.quantity = (IF u.quantity = NoNumber THEN before.quantity ELSE u.quantity)
    /\ after.fixed_price_cents =
          (IF u.fixed_price_cents = NoNumber THEN before.fixed_price_cents
           ELSE u.fixed_price_cents)
    /\ after.labor_hours =
          (IF u.labor_hours = NoNumber THEN before.labor_hours ELSE u.labor_hours)
    /\ after.note = (IF u.note = NULL THEN before.note ELSE u.note)
    /\ [after EXCEPT !.name = before.name, !.quantity = before.quantity,
                     !.fixed_price_cents = before.fixed_price_cents,
                     !.labor_hours = before.labor_hours, !.note = before.note] = before

C19_LineTotalMonotone ==
    \A i \in DOMAIN order_line_item, taxable \in BOOLEAN :
        LET item == order_line_item[i] IN
        ValidLineItem(item)
        => /\ ComputeLineTotal(item, taxable) >= 0
           /\ \A q \in QuantityOf(item) .. MaxQuantity :
                 ComputeLineTotal(WithQuantity(item, q), taxable)
                     >= ComputeLineTotal(item, taxable)

\* the engine has priced an item whose fixed discount exceeds its base
C19_Witness ==
    /\ last.op = "price_line" /\ last.code = 200
    /\ order_line_item[1].pricing = "parts"
    /\ order_line_item[1].quantity = 2
    /\ order_line_item[1].discount_cents = 20000
    /\ order_line_item[1].total_cents = 800

Visible(items) == SelectSeq(items, LAMBDA r : ~r.hidden)

C22_TotalFormula ==
    \A o \in DOMAIN order :
        LET items == LineItemsOf(order_line_item, o)
            totals == RecomputeOrderTotals(order[o], items)
            discounted == totals.calculated_subtotal_cents - totals.calculated_discount_cents
        IN  AllValid(o)
            => /\ totals.calculated_total_cents
                     = discounted + ApplyPercent(discounted, order[o].tax_percent)
                       + SumLineTax(items, Len(items))
               /\ (/\ Len(items) = 2
                   /\ items[1].pricing = "fixed" /\ items[1].fixed_price_cents = 10000
                   /\ items[1].tax_percent = 8 /\ items[1].discount_cents = 0
                   /\ items[1].discount_percent = 0 /\ ~items[1].hidden
                   /\ items[2].pricing = "parts" /\ items[2].parts_cost_cents = 5000
                   /\ items[2].quantity = 1
                   /\ order[o].discount_percent = 10 /\ order[o].tax_percent = 0)
                  => /\ totals.calculated_subtotal_cents = 15000
                     /\ totals.calculated_discount_cents = 1500
                     /\ totals.calculated_tax_cents = 800
                     /\ totals.calculated_total_cents = 14300

\* a pass has stored the totals of the order of the scenario
C22_Witness ==
    /\ last.op = "rollup" /\ last.code = 200 /\ last.gw = "o1"
    /\ Len(order_line_item) = 2
    /\ order_line_item[1].tax_percent = 8 /\ order_line_item[1].category = "labor"
    /\ order_line_item[2].parts_cost_cents = 5000
    /\ order["o1"].discount_percent = 10 /\ order["o1"].tax_percent = 0
    /\ order["o1"].calculated_subtotal_cents = 15000
    /\ order["o1"].calculated_discount_cents = 1500
    /\ order["o1"].calculated_tax_cents = 800
    /\ order["o1"].calculated_total_cents = 14300

\* C23: no operation removes an order or a line item: every step keeps the
\* stored orders and line items stored, and after it every order_id held by
\* a stored transaction identifies a stored order.
C23_ReferencedOrdersKept ==
    [][/\ DOMAIN order \subseteq DOMAIN order'
       /\ DOMAIN order_line_item \subseteq DOMAIN order_line_item'
       /\ \A t \in DOMAIN transaction' : transaction'[t].order_id \in DOMAIN order']_vars

\* a transaction references an order that was created and then updated, and
\* a line item of another order is stored
C23_Witness ==
    /\ NewOrderId \in DOMAIN order
    /\ order[NewOrderId].status = "invoiced"
    /\ \E t \in DOMAIN transaction : transaction[t].order_id = NewOrderId
    /\ Len(order_line_item) > 0

\* C24: a confirmation stores a transaction only when the gateway answered
\* succeeded for the intent of the request: a step of the handler that
\* changes the ledger appends one row whose amount and payment reference are
\* the gateway's amount and intent id, and after any other gateway status or
\* a gateway error the ledger is as it was.
C24_ConfirmStoresOnlySucceeded ==
    [][\A b \in ConfirmBodies, outcome \in RetrieveOutcomes :
          ConfirmPayment(b, outcome)
          => LET id == b.payment_intent_id
                 succeeded == /\ id \in DOMAIN intents
                              /\ outcome = "ok"
                              /\ intents[id].status = "succeeded"
             IN  /\ ~succeeded => transaction' = transaction
                 /\ transaction' # transaction
                    => /\ Len(transaction') = Len(transaction) + 1
                       /\ SubSeq(transaction', 1, Len(transaction)) = transaction
                       /\ transaction'[Len(transaction')].amount_cents = intents[id].amount
                       /\ transaction'[Len(transaction')].payment_reference = id]_vars

\* a confirmation has stored the payment of an intent, and the stored amount
\* is the gateway's, not the one of the request body
C24_Witness ==
    /\ last.op = "confirm" /\ last.code = 200 /\ last.gw = "succeeded"
    /\ transaction[last.txn].payment_reference = last.ref
    /\ transaction[last.txn].amount_cents = intents[last.ref].amount
    /\ transaction[last.txn].amount_cents # ConfirmBody.amount_cents

C26_CreatedPending ==
    [][\A b \in TransactionBodies :
          PostTransaction(b)
          => /\ (Missing(b.order_id) \/ Missing(b.customer_id)
                 \/ b.amount_cents = 0 \/ Missing(b.location_id))
                => (last'.code = 400 /\ transaction' = transaction)
             /\ transaction' # transaction
                => /\ Len(transaction') = Len(transaction) + 1
                   /\ SubSeq(transaction', 1, Len(transaction)) = transaction
                   /\ transaction'[Len(transaction')].status = "pending"]_vars

\* a request whose body said status succeeded was stored, as pending
C26_Witness ==
    /\ last.op = "post_transaction" /\ last.code = 201
    /\ transaction[last.txn].status = "pending"
    /\ transaction[last.txn].amount_cents = 10000
    /\ \E b \in TransactionBodies :
          b.amount_cents = 10000 /\ b.status = "succeeded"

\* C27: for any interleaving of concurrent create-intent requests of one
\* customer, the gateway holds at most one customer for that customer, and
\* every intent created for the customer is on the stripe_customer_id stored
\* in the customer's row.
C27_OneGatewayCustomer ==
    \A c \in CustomerIds :
        /\ Cardinality({n \in DOMAIN stripe_customers : stripe_customers[n] = c}) <= 1
        /\ \A i \in DOMAIN intents :
              intents[i].customer_id = c /\ customer[c] # NULL
              => intents[i].customer = customer[c]

\* C28: at most one refresh token of a user is usable at any time: a refresh
\* answers an access token (200) only to the refresh token that register or
\* login stored last for a user who is active, and a token that was issued
\* earlier and is no longer the stored one (after a logout, or after a later
\* login replaced it) is answered 401.
C28_OneUsableRefreshToken ==
    [][/\ \A u \in UserIds :
             Cardinality({t \in issued : t.id = u /\ RefreshStatus(t) = 200}) <= 1
       /\ \A t \in issued :
             Refresh(t)
             => /\ auth_last'.code = 200
                   => (user[t.id].refresh_token = t /\ user[t.id].active)
                /\ user[t.id].refresh_token # t => auth_last'.code = 401]_vars

\* a token that a later login replaced has been presented and answered 401
C28_Witness ==
    /\ auth_last.op = "refresh" /\ auth_last.code = 401
    /\ auth_last.token \in issued
    /\ user[auth_last.token.id].active
    /\ user[auth_last.token.id].refresh_token \in issued
    /\ user[auth_last.token.id].refresh_token.iat > auth_last.token.iat

\* C29: for every page and limit string, zero, negative and non-numeric ones
\* included, parseQueryParams returns a page of at least 1, a limit between
\* 1 and 100 and the non-negative offset (page - 1) * limit.
C29_PaginationInRange ==
    params.parsed
    => /\ params.page >= 1
       /\ params.limit \in 1 .. MaxLimit
       /\ params.offset >= 0
       /\ params.offset = (params.page - 1) * params.limit

\* C30: when the migration script has exited it has run every .sql file of
\* the directory once, in ascending order of the file names, also after a
\* failure, and its exit code is 0 exactly when every migration succeeded and
\* 1 when at least one failed.
C30_RunsAllAndReportsFailure ==
    runner.pc = "exited"
    => /\ Len(runner.ran) = Cardinality({f \in runner.directory : f.sql})
       /\ \A f \in runner.directory :
             f.sql => Cardinality({i \in DOMAIN runner.ran : runner.ran[i] = f.name}) = 1
       /\ \A i, j \in DOMAIN runner.ran :
             i < j => NameBefore(runner.ran[i], runner.ran[j])
       /\ runner.successCount + runner.errorCount = Len(runner.ran)
       /\ runner.exit = 0 <=> runner.errorCount = 0
       /\ runner.exit = 1 <=> runner.errorCount > 0

====
